---- MODULE Spec2Model ----
(***************************************************************************)
(* Model of basicc.py, an ahead-of-time compiler for a line-numbered BASIC *)
(* dialect: grammar-driven parse, line collation (walk_Program), statement *)
(* lowering (add_isn_to_program) and the build driver (compile).           *)
(*                                                                         *)
(* Representation.  A Python str is a sequence of one-character strings,   *)
(* so that int(), str.format, join, splitext and concatenation are         *)
(* computed character by character.  The source text is the sequence of    *)
(* tokens the grammar's patterns cut it into (whitespace between tokens is *)
(* skipped by the parser): [t |-> kind, v |-> matched text].  A parse-tree *)
(* node is a record holding exactly the attributes the parse gave it, so   *)
(* reading an attribute a node lacks is visible as a missing field (the    *)
(* AttributeError walk_Program catches).  Every compilation run (one OS    *)
(* process executing main) has its own copy of the interpreter state; the  *)
(* file system is the only state the runs share.                           *)
(***************************************************************************)
EXTENDS Integers, Sequences, FiniteSets, TLC

VARIABLES
    pc,            \* pc[r]: position of run r in main()
    args,          \* args[r]: the parsed command line (srcfile, outfile, debug)
    program_text,  \* program_text[r]: tokens of the text read from args.srcfile
    model,         \* model[r]: the Program node built by the parser
    statements,    \* statements[r]: the dict of walk_Program (int -> statement)
    idx,           \* idx[r]: position of the running for-loop of walk_Program
    calls,         \* calls[r]: the add_statement calls made so far, in order
    main_block,    \* main_block[r]: operations of the "entry" block of main
    locals,        \* locals[r]: names of the locals created in main_fn
    imports,       \* imports[r]: imported functions declared in the context
    debug_mode,    \* debug_mode[r]: BasicProgramCompiler.debug_mode
    link_args,     \* link_args[r]: argv of the gcc subprocess
    err,           \* err[r]: the exception that ended the run, or "none"
    disk           \* disk[p]: content of the file at path p

vars == <<pc, args, program_text, model, statements, idx, calls, main_block,
          locals, imports, debug_mode, link_args, err, disk>>

\* The compilation runs that may be alive at the same time.
Runs == {1, 2}

\* Largest number of source lines in a program text.
MaxLines == 3

(***************************************************************************)
(* Python values                                                           *)
(***************************************************************************)

\* None in a slot that otherwise holds a node.
None == [none |-> TRUE]

\* None in a slot that otherwise holds text (no pattern matches the empty
\* text there, so the empty sequence is free to stand for it).
NoText == <<>>

\* str(x) for a text slot.
str(x) == IF x = NoText THEN <<"N", "o", "n", "e">> ELSE x

Digits == <<"0", "1", "2", "3", "4", "5", "6", "7", "8", "9">>

DigitVal(c) == (CHOOSE d \in 1..10 : Digits[d] = c) - 1

\* int(s) for a text of decimal digits (leading zeros are accepted).
RECURSIVE int(_)
int(s) ==
    IF Len(s) = 0 THEN 0
    ELSE 10 * int(SubSeq(s, 1, Len(s) - 1)) + DigitVal(s[Len(s)])

\* str(k) for an int k >= 0.
RECURSIVE IntToStr(_)
IntToStr(k) ==
    IF k < 10 THEN <<Digits[k + 1]>>
    ELSE IntToStr(k \div 10) \o <<Digits[(k % 10) + 1]>>

\* sep.join(parts)
RECURSIVE Join(_, _)
Join(sep, parts) ==
    IF Len(parts) = 0 THEN <<>>
    ELSE IF Len(parts) = 1 THEN parts[1]
    ELSE parts[1] \o sep \o Join(sep, Tail(parts))

\* [x] * n
Repeat(x, n) == [i \in 1..n |-> x]

\* sorted(S) for a set of ints.
RECURSIVE Sorted(_)
Sorted(S) ==
    IF S = {} THEN <<>>
    ELSE LET m == CHOOSE x \in S : \A y \in S : x <= y
         IN <<m>> \o Sorted(S \ {m})

LastIndex(p, c) ==
    LET I == {i \in 1..Len(p) : p[i] = c}
    IN IF I = {} THEN 0 ELSE CHOOSE i \in I : \A j \in I : j <= i

\* os.path.splitext(p)[0]
SplitextRoot(p) ==
    LET sep == LastIndex(p, "/")
        dot == LastIndex(p, ".")
    IN IF dot > sep /\ \E j \in (sep + 1)..(dot - 1) : p[j] # "."
       THEN SubSeq(p, 1, dot - 1)
       ELSE p

(***************************************************************************)
(* AST model: the statement and expression classes                         *)
(***************************************************************************)

\* NumberExpression(label, number)
NumberExpression(label, number) == [label |-> label, number |-> number]

\* CommentStatement(node)
CommentStatement(node) == [instruction_name |-> "REM", comment |-> node.comment]

\* PrintStatement(node)
PrintStatement(node) ==
    [instruction_name |-> "PRINT",
     expressions |->
        [i \in 1..Len(node.expression_list) |->
            NumberExpression(node.expression_list[i].label,
                             node.expression_list[i].expression.number)]]

(***************************************************************************)
(* GRAMMAR: a PEG, ordered choice, no backtracking into a matched option.  *)
(* Every parse operator takes the token sequence and a position and gives  *)
(* [ok, node, next].                                                       *)
(***************************************************************************)

Tok(kind, text) == [t |-> kind, v |-> text]

Fail == [ok |-> FALSE, node |-> None, next |-> 0]

At(toks, p, kind) == p <= Len(toks) /\ toks[p].t = kind

\* expression = number:number | string:string ;
ParseExpression(toks, p) ==
    IF At(toks, p, "number")
    THEN [ok |-> TRUE, next |-> p + 1,
          node |-> [number |-> toks[p].v, string |-> None]]
    ELSE IF At(toks, p, "string")
    THEN [ok |-> TRUE, next |-> p + 1,
          node |-> [number |-> NoText, string |-> [value |-> toks[p].v]]]
    ELSE Fail

\* label_expression = label:[label] expression:expression ;
ParseLabelExpression(toks, p) ==
    LET label == IF At(toks, p, "string") THEN [value |-> toks[p].v] ELSE None
        q == IF At(toks, p, "string") THEN p + 1 ELSE p
        e == ParseExpression(toks, q)
    IN IF e.ok
       THEN [ok |-> TRUE, next |-> e.next,
             node |-> [label |-> label, expression |-> e.node]]
       ELSE Fail

\* the tail of ",".{label_expression}+ : as many (, label_expression) as match
RECURSIVE ParseMoreExpressions(_, _, _)
ParseMoreExpressions(toks, p, acc) ==
    LET e == ParseLabelExpression(toks, p + 1)
    IN IF At(toks, p, ",") /\ e.ok
       THEN ParseMoreExpressions(toks, e.next, Append(acc, e.node))
       ELSE [ok |-> TRUE, node |-> acc, next |-> p]

\* expression_list = ",".{label_expression}+ ;
ParseExpressionList(toks, p) ==
    LET e == ParseLabelExpression(toks, p)
    IN IF e.ok THEN ParseMoreExpressions(toks, e.next, <<e.node>>) ELSE Fail

\* statement = comment_statement | print_statement ;
ParseStatement(toks, p) ==
    IF At(toks, p, "REM")
    THEN [ok |-> TRUE, next |-> p + 1,
          node |-> CommentStatement([comment |-> toks[p].v])]
    ELSE IF At(toks, p, "PRINT")
    THEN LET l == ParseExpressionList(toks, p + 1)
         IN IF l.ok
            THEN [ok |-> TRUE, next |-> l.next,
                  node |-> PrintStatement([expression_list |-> l.node])]
            ELSE Fail
    ELSE Fail

\* line::Line = line_number:line_number statement:statement
\*            | line_number:line_number ;
ParseLine(toks, p) ==
    IF ~At(toks, p, "number") THEN Fail
    ELSE LET s == ParseStatement(toks, p + 1)
         IN IF s.ok
            THEN [ok |-> TRUE, next |-> s.next,
                  node |-> [line_number |-> toks[p].v, statement |-> s.node]]
            ELSE [ok |-> TRUE, next |-> p + 1,
                  node |-> [line_number |-> toks[p].v]]

\* {line} : as many lines as match, from position p
RECURSIVE ParseLines(_, _, _)
ParseLines(toks, p, acc) ==
    LET l == ParseLine(toks, p)
    IN IF l.ok THEN ParseLines(toks, l.next, Append(acc, l.node)) ELSE acc

\* program::Program = {line}+ ;
ParseProgram(toks) ==
    LET ls == ParseLines(toks, 1, <<>>)
    IN IF Len(ls) >= 1
       THEN [ok |-> TRUE, node |-> [lines |-> ls]]
       ELSE [ok |-> FALSE, node |-> None]

(***************************************************************************)
(* Statement lowering.  A compiler object p is the record                  *)
(* [main_block, locals, imports] of one run.                               *)
(***************************************************************************)

\* Mutant of FormatString: the placeholders joined without the space.
FormatStringNoSpace(n) == Join(<<>>, Repeat(<<"%", "s">>, n)) \o <<"\n">>

\* b" ".join([b"%s"] * n) + b"\n"
FormatString(n) == Join(<<" ">>, Repeat(<<"%", "s">>, n)) \o <<"\n">>

\* Mutant of get_str_for_print: the text of __str__, which quotes the label
\* and puts a space after it.
StrForPrintQuoted(e) ==
    IF e.label = None
    THEN str(e.number)
    ELSE <<"\"">> \o e.label.value \o <<"\"", " ">> \o str(e.number)

\* NumberExpression.get_str_for_print
get_str_for_print(e) ==
    IF e.label = None
    THEN str(e.number)
    ELSE e.label.value \o str(e.number)

\* Mutant of LocalName: the line number is left out of the name.
LocalNameUnnumbered(line_number) ==
    <<"p", "r", "i", "n", "t", "f", ".", "l", "i", "n", "e">>

\* "printf.line.{}".format(line_number)
LocalName(line_number) ==
    <<"p", "r", "i", "n", "t", "f", ".", "l", "i", "n", "e", ".">>
        \o IntToStr(line_number)

\* printf_args of PrintStatement.add_isn_to_program
PrintfArgs(stmt) ==
    <<FormatString(Len(stmt.expressions))>>
        \o [i \in 1..Len(stmt.expressions) |->
                get_str_for_print(stmt.expressions[i])]

\* Mutant of PrintAddIsn: the call is emitted whatever the length of the
\* expression list.
PrintAddIsnUnguarded(p, stmt, line_number) ==
    [p EXCEPT
       !.imports = Append(@, "printf"),
       !.locals = Append(@, LocalName(line_number)),
       !.main_block =
           Append(@, [op |-> "assignment",
                      lvalue |-> LocalName(line_number),
                      fn |-> "printf",
                      args |-> PrintfArgs(stmt)])]

\* PrintStatement.add_isn_to_program
PrintAddIsn(p, stmt, line_number) ==
    LET q == [p EXCEPT !.imports = Append(@, "printf")]
    IN IF Len(stmt.expressions) > 0
       THEN [q EXCEPT
               !.locals = Append(@, LocalName(line_number)),
               !.main_block =
                   Append(@, [op |-> "assignment",
                              lvalue |-> LocalName(line_number),
                              fn |-> "printf",
                              args |-> PrintfArgs(stmt)])]
       ELSE q

\* CommentStatement.add_isn_to_program
CommentAddIsn(p, stmt, line_number) ==
    [p EXCEPT !.main_block = Append(@, [op |-> "comment", text |-> stmt.comment])]

\* BasicProgramCompiler.add_statement: dispatch on the statement's class
add_statement(p, stmt, line_number) ==
    IF stmt.instruction_name = "PRINT"
    THEN PrintAddIsn(p, stmt, line_number)
    ELSE CommentAddIsn(p, stmt, line_number)

(***************************************************************************)
(* Line collation (walk_Program)                                           *)
(***************************************************************************)

\* line.statement raises AttributeError when the line was parsed by the
\* alternative of the grammar that gives it no statement
HasStatement(line) == "statement" \in DOMAIN line

\* Mutant of Collate: a line without a statement is skipped, not removed.
CollateNoDelete(d, line) ==
    LET n == int(line.line_number)
    IN IF HasStatement(line)
       THEN [k \in DOMAIN d \cup {n} |-> IF k = n THEN line.statement ELSE d[k]]
       ELSE d

\* body of the first loop of walk_Program: one line applied to the dict
Collate(d, line) ==
    LET n == int(line.line_number)
    IN IF HasStatement(line)
       THEN [k \in DOMAIN d \cup {n} |-> IF k = n THEN line.statement ELSE d[k]]
       ELSE [k \in DOMAIN d \ {n} |-> d[k]]

\* Mutant of SortedKeys: the keys in descending order.
KeysDescending(d) ==
    LET up == Sorted(DOMAIN d)
    IN [i \in 1..Len(up) |-> up[Len(up) + 1 - i]]

\* sorted(statements.keys())
SortedKeys(d) == Sorted(DOMAIN d)

\* where main goes once the first loop is over: into the second loop, or
\* past it when no statement survived
AfterWalk(d) == IF DOMAIN d = {} THEN "compile" ELSE "lower"

(***************************************************************************)
(* Build driver                                                            *)
(***************************************************************************)

NoFile == [kind |-> "none"]

\* "{}.o".format(namebase)
full_object_filename(namebase) == namebase \o <<".", "o">>

\* the object file of run r: compile(src_namebase, args.outfile) of main
ObjectFile(r) == full_object_filename(SplitextRoot(args[r].srcfile))

\* argv of the gcc subprocess
GccArgs(debug, outfile, object_filename) ==
    <<<<"g", "c", "c">>>>
        \o (IF debug THEN <<<<"-", "g">>>> ELSE <<>>)
        \o <<<<"-", "o">>, outfile>>
        \o <<object_filename, <<"-", "l", "m">>>>

(***************************************************************************)
(* Inputs                                                                  *)
(***************************************************************************)

\* The source lines the program texts are made of.
LineTexts ==
    { \* 20 PRINT "B" 2
      <<Tok("number", <<"2", "0">>), Tok("PRINT", <<>>),
        Tok("string", <<"B">>), Tok("number", <<"2">>)>>,
      \* 10 PRINT 1, "A" 1
      <<Tok("number", <<"1", "0">>), Tok("PRINT", <<>>),
        Tok("number", <<"1">>), Tok(",", <<>>),
        Tok("string", <<"A">>), Tok("number", <<"1">>)>>,
      \* 20
      <<Tok("number", <<"2", "0">>)>>,
      \* 10 REM c
      <<Tok("number", <<"1", "0">>), Tok("REM", <<"c">>)>>,
      \* 010 PRINT 2
      <<Tok("number", <<"0", "1", "0">>), Tok("PRINT", <<>>),
        Tok("number", <<"2">>)>>,
      \* 30 PRINT "A" "B"
      <<Tok("number", <<"3", "0">>), Tok("PRINT", <<>>),
        Tok("string", <<"A">>), Tok("string", <<"B">>)>>,
      \* 5 PRINT "A"
      <<Tok("number", <<"5">>), Tok("PRINT", <<>>), Tok("string", <<"A">>)>> }

RECURSIVE TextsOfLen(_)
TextsOfLen(n) ==
    IF n = 0 THEN {<<>>}
    ELSE {t \o l : t \in TextsOfLen(n - 1), l \in LineTexts}

\* Program texts of at most MaxLines source lines, the empty text included.
Texts == UNION {TextsOfLen(n) : n \in 0..MaxLines}

\* a.b, a.t, b.b
SrcFiles == {<<"a", ".", "b">>, <<"a", ".", "t">>, <<"b", ".", "b">>}

\* a.out (the default of -o), x
OutFiles == {<<"a", ".", "o", "u", "t">>, <<"x">>}

Paths == {full_object_filename(SplitextRoot(s)) : s \in SrcFiles} \cup OutFiles

ArgSet == [srcfile : SrcFiles, outfile : OutFiles, debug : BOOLEAN]

\* Command lines of a run that is alone: the source file is a.b.
OneRunArgs == {a \in ArgSet : a.srcfile = <<"a", ".", "b">>}

NoArgs == [srcfile |-> <<>>, outfile |-> <<>>, debug |-> FALSE]

(***************************************************************************)
(* The runs                                                                *)
(***************************************************************************)

\* the compiler object of run r
Program(r) ==
    [main_block |-> main_block[r], locals |-> locals[r], imports |-> imports[r]]

\* run r ends with an uncaught exception e
Raise(r, e) ==
    /\ pc' = [pc EXCEPT ![r] = "failed"]
    /\ err' = [err EXCEPT ![r] = e]

\* main: model = model_parser.parse(program_text)
Parse(r) ==
    /\ pc[r] = "start"
    /\ LET res == ParseProgram(program_text[r])
       IN IF res.ok
          THEN /\ model' = [model EXCEPT ![r] = res.node]
               /\ pc' = [pc EXCEPT ![r] = "parsed"]
               /\ err' = err
          ELSE /\ Raise(r, "FailedParse")
               /\ model' = model
    /\ UNCHANGED <<args, program_text, statements, idx, calls, main_block,
                   locals, imports, debug_mode, link_args, disk>>

\* main: program = BasicProgramCompiler(); set_debug_mode when -g is given
NewCompiler(r) ==
    /\ pc[r] = "parsed"
    /\ main_block' = [main_block EXCEPT ![r] = <<>>]
    /\ debug_mode' = [debug_mode EXCEPT ![r] = args[r].debug]
    /\ statements' = [statements EXCEPT ![r] = <<>>]
    /\ idx' = [idx EXCEPT ![r] = 1]
    /\ pc' = [pc EXCEPT ![r] = "walk"]
    /\ UNCHANGED <<args, program_text, model, calls, locals, imports,
                   link_args, err, disk>>

\* walk_Program: one iteration of "for line in node.lines"
WalkLine(r) ==
    /\ pc[r] = "walk"
    /\ idx[r] <= Len(model[r].lines)
    /\ LET d == Collate(statements[r], model[r].lines[idx[r]])
       IN /\ statements' = [statements EXCEPT ![r] = d]
          /\ IF idx[r] < Len(model[r].lines)
             THEN /\ idx' = [idx EXCEPT ![r] = @ + 1]
                  /\ pc' = pc
             ELSE /\ idx' = [idx EXCEPT ![r] = 1]
                  /\ pc' = [pc EXCEPT ![r] = AfterWalk(d)]
    /\ UNCHANGED <<args, program_text, model, calls, main_block, locals,
                   imports, debug_mode, link_args, err, disk>>

\* walk_Program: one iteration of "for k in sorted(statements.keys())"
AddStatement(r) ==
    /\ pc[r] = "lower"
    /\ LET keys == SortedKeys(statements[r])
           k == keys[idx[r]]
           p == add_statement(Program(r), statements[r][k], k)
       IN /\ calls' = [calls EXCEPT
                         ![r] = Append(@, [statement |-> statements[r][k],
                                           line_number |-> k])]
          /\ main_block' = [main_block EXCEPT ![r] = p.main_block]
          /\ locals' = [locals EXCEPT ![r] = p.locals]
          /\ imports' = [imports EXCEPT ![r] = p.imports]
          /\ IF idx[r] < Len(keys)
             THEN /\ idx' = [idx EXCEPT ![r] = @ + 1]
                  /\ pc' = pc
             ELSE /\ idx' = idx
                  /\ pc' = [pc EXCEPT ![r] = "compile"]
    /\ UNCHANGED <<args, program_text, model, statements, debug_mode,
                   link_args, err, disk>>

\* compile: end the block with "return 0" and write the object file
CompileToFile(r) ==
    /\ pc[r] = "compile"
    /\ LET code == Append(main_block[r], [op |-> "return", value |-> 0])
       IN /\ main_block' = [main_block EXCEPT ![r] = code]
          /\ disk' = [disk EXCEPT
                        ![ObjectFile(r)] =
                            [kind |-> "object", by |-> r, code |-> code]]
    /\ pc' = [pc EXCEPT ![r] = "link"]
    /\ UNCHANGED <<args, program_text, model, statements, idx, calls, locals,
                   imports, debug_mode, link_args, err>>

\* compile: run gcc on the object file and check its return code.  gcc
\* fails when the object file is not there and may fail for other reasons;
\* a failed gcc leaves no executable behind.
Link(r) ==
    /\ pc[r] = "link"
    /\ link_args' = [link_args EXCEPT
                       ![r] = GccArgs(debug_mode[r], args[r].outfile,
                                      ObjectFile(r))]
    /\ \/ /\ disk[ObjectFile(r)].kind = "object"
          /\ disk' = [disk EXCEPT
                        ![args[r].outfile] =
                            [kind |-> "executable", by |-> r,
                             code |-> disk[ObjectFile(r)].code,
                             code_by |-> disk[ObjectFile(r)].by]]
          /\ pc' = [pc EXCEPT ![r] = "remove"]
          /\ err' = err
       \/ /\ Raise(r, "CalledProcessError")
          /\ disk' = disk
    /\ UNCHANGED <<args, program_text, model, statements, idx, calls,
                   main_block, locals, imports, debug_mode>>

\* compile: os.remove(full_object_filename)
Remove(r) ==
    /\ pc[r] = "remove"
    /\ \/ /\ disk[ObjectFile(r)].kind # "none"
          /\ disk' = [disk EXCEPT ![ObjectFile(r)] = NoFile]
          /\ pc' = [pc EXCEPT ![r] = "done"]
          /\ err' = err
       \/ /\ disk[ObjectFile(r)].kind # "none"
          /\ Raise(r, "PermissionError")
          /\ disk' = disk
       \/ /\ disk[ObjectFile(r)].kind = "none"
          /\ Raise(r, "FileNotFoundError")
          /\ disk' = disk
    /\ UNCHANGED <<args, program_text, model, statements, idx, calls,
                   main_block, locals, imports, debug_mode, link_args>>

\* the state of a run before main has done anything
Fresh ==
    /\ model = [r \in Runs |-> None]
    /\ statements = [r \in Runs |-> <<>>]
    /\ idx = [r \in Runs |-> 1]
    /\ calls = [r \in Runs |-> <<>>]
    /\ main_block = [r \in Runs |-> <<>>]
    /\ locals = [r \in Runs |-> <<>>]
    /\ imports = [r \in Runs |-> <<>>]
    /\ debug_mode = [r \in Runs |-> FALSE]
    /\ link_args = [r \in Runs |-> <<>>]
    /\ err = [r \in Runs |-> "none"]
    /\ disk = [p \in Paths |-> NoFile]

\* One run: run 1 compiles any program text, run 2 is never started.
Init ==
    /\ pc = [r \in Runs |-> IF r = 1 THEN "start" ELSE "off"]
    /\ \E a \in OneRunArgs : args = [r \in Runs |-> IF r = 1 THEN a ELSE NoArgs]
    /\ \E t \in Texts : program_text = [r \in Runs |-> IF r = 1 THEN t ELSE <<>>]
    /\ Fresh

Next ==
    \E r \in Runs :
        \/ Parse(r)
        \/ NewCompiler(r)
        \/ WalkLine(r)
        \/ AddStatement(r)
        \/ CompileToFile(r)
        \/ Link(r)
        \/ Remove(r)

Spec == Init /\ [][Next]_vars

(***************************************************************************)
(* Two runs at the same time, on different source files.                   *)
(***************************************************************************)

\* 10 PRINT 1, "A" 1   and   10 REM c
ConcTexts ==
    { <<Tok("number", <<"1", "0">>), Tok("PRINT", <<>>),
        Tok("number", <<"1">>), Tok(",", <<>>),
        Tok("string", <<"A">>), Tok("number", <<"1">>)>>,
      <<Tok("number", <<"1", "0">>), Tok("REM", <<"c">>)>> }

InitConc ==
    /\ pc = [r \in Runs |-> "start"]
    /\ args \in [Runs -> {a \in ArgSet : ~a.debug}]
    /\ args[1].srcfile # args[2].srcfile
    /\ program_text \in [Runs -> ConcTexts]
    /\ Fresh

SpecConc == InitConc /\ [][Next]_vars

(***************************************************************************)
(* Lowering alone: walk_Program's second loop and compile, started from    *)
(* any dict of statements the statement classes can build (the constructor *)
(* of PrintStatement takes any expression list, the empty one included).   *)
(***************************************************************************)

LowerKeys == {5, 10, 20}

LowerStatements ==
    { CommentStatement([comment |-> <<"c">>]),
      PrintStatement([expression_list |-> <<>>]),
      PrintStatement([expression_list |->
          <<[label |-> None, expression |-> [number |-> <<"1">>]]>>]),
      PrintStatement([expression_list |->
          <<[label |-> [value |-> <<"A">>], expression |-> [number |-> <<"1">>]],
            [label |-> None, expression |-> [number |-> <<"2">>]]>>]) }

InitLower ==
    /\ \E K \in SUBSET LowerKeys : \E d \in [K -> LowerStatements] :
          /\ statements = [r \in Runs |-> IF r = 1 THEN d ELSE <<>>]
          /\ pc = [r \in Runs |-> IF r = 1 THEN AfterWalk(d) ELSE "off"]
    /\ args = [r \in Runs |->
                 IF r = 1
                 THEN [srcfile |-> <<"a", ".", "b">>, outfile |-> <<"x">>,
                       debug |-> FALSE]
                 ELSE NoArgs]
    /\ program_text = [r \in Runs |-> <<>>]
    /\ model = [r \in Runs |-> None]
    /\ idx = [r \in Runs |-> 1]
    /\ calls = [r \in Runs |-> <<>>]
    /\ main_block = [r \in Runs |-> <<>>]
    /\ locals = [r \in Runs |-> <<>>]
    /\ imports = [r \in Runs |-> <<>>]
    /\ debug_mode = [r \in Runs |-> FALSE]
    /\ link_args = [r \in Runs |-> <<>>]
    /\ err = [r \in Runs |-> "none"]
    /\ disk = [p \in Paths |-> NoFile]

NextLower ==
    \E r \in Runs :
        \/ AddStatement(r)
        \/ CompileToFile(r)
        \/ Link(r)
        \/ Remove(r)

SpecLower == InitLower /\ [][NextLower]_vars

(***************************************************************************)
(* What the generated routine does when it is run                          *)
(***************************************************************************)

\* printf(format, args...): every %s is replaced by the next argument
RECURSIVE Printf(_, _)
Printf(format, a) ==
    IF Len(format) = 0 THEN <<>>
    ELSE IF Len(format) >= 2 /\ format[1] = "%" /\ format[2] = "s" /\ Len(a) > 0
    THEN a[1] \o Printf(SubSeq(format, 3, Len(format)), Tail(a))
    ELSE <<format[1]>> \o Printf(Tail(format), a)

\* the text the routine writes to stdout
RECURSIVE Stdout(_)
Stdout(code) ==
    IF Len(code) = 0 THEN <<>>
    ELSE IF code[1].op = "assignment"
    THEN Printf(code[1].args[1], Tail(code[1].args)) \o Stdout(Tail(code))
    ELSE Stdout(Tail(code))

\* the ops of one kind in a block
Ops(code, kind) == SelectSeq(code, LAMBDA o : o.op = kind)

(***************************************************************************)
(* Properties                                                              *)
(***************************************************************************)

\* run r has finished the first loop of walk_Program
Collated(r) ==
    \/ pc[r] \in {"lower", "compile", "link", "remove", "done"}
    \/ pc[r] = "failed" /\ err[r] # "FailedParse"

\* run r has finished the second loop of walk_Program
Lowered(r) ==
    \/ pc[r] \in {"compile", "link", "remove", "done"}
    \/ pc[r] = "failed" /\ err[r] # "FailedParse"

\* run r has ended its routine with the return
Returned(r) ==
    \/ pc[r] \in {"link", "remove", "done"}
    \/ pc[r] = "failed" /\ err[r] # "FailedParse"

\* the numbers the parsed lines carry, and the last line carrying number n
LineNumbers(lines) == {int(lines[i].line_number) : i \in 1..Len(lines)}

LastLine(lines, n) ==
    lines[CHOOSE i \in 1..Len(lines) :
            /\ int(lines[i].line_number) = n
            /\ \A j \in (i + 1)..Len(lines) : int(lines[j].line_number) # n]

\* the add_statement calls that passed a Print with at least one expression
PrintCalls(r) ==
    SelectSeq(calls[r],
              LAMBDA c : /\ c.statement.instruction_name = "PRINT"
                         /\ Len(c.statement.expressions) >= 1)

CommentCalls(r) ==
    SelectSeq(calls[r], LAMBDA c : c.statement.instruction_name = "REM")

\* f is n placeholders %s, a space between two of them, a newline at the end
IsFormat(f, n) ==
    /\ Len(f) = 3 * n
    /\ \A k \in 1..n :
          /\ f[3 * k - 2] = "%"
          /\ f[3 * k - 1] = "s"
          /\ f[3 * k] = IF k < n THEN " " ELSE "\n"

\* C1: once the lines are collated, the dict holds exactly the numbers whose
\* last line in the source carried a statement, each with the statement of
\* that last line: a later statement replaces an earlier one, a later line
\* without a statement removes the number, and a line without a statement
\* for a number never defined changes nothing and ends no run.
C1_LastWriteWins ==
    \A r \in Runs :
        Collated(r) /\ model[r] # None =>
            LET lines == model[r].lines
                alive == {n \in LineNumbers(lines) :
                             HasStatement(LastLine(lines, n))}
            IN /\ DOMAIN statements[r] = alive
               /\ \A n \in alive :
                     statements[r][n] = LastLine(lines, n).statement

\* a number was defined, then deleted by a later line without a statement,
\* and is not in the collated program
C1_Witness ==
    \E r \in Runs :
        /\ pc[r] = "compile"
        /\ model[r] # None
        /\ \E i, j \in 1..Len(model[r].lines) :
              /\ i < j
              /\ int(model[r].lines[i].line_number)
                    = int(model[r].lines[j].line_number)
              /\ HasStatement(model[r].lines[i])
              /\ ~HasStatement(model[r].lines[j])
              /\ int(model[r].lines[i].line_number) \notin DOMAIN statements[r]
              /\ DOMAIN statements[r] # {}

\* C2: the statements handed to add_statement come in strictly ascending
\* order of line number, and once lowering is over every surviving line
\* number was handed over exactly once, with its statement; the locals of
\* the PRINT calls follow the same order.
C2_AscendingOnce ==
    \A r \in Runs :
        /\ \A i, j \in 1..Len(calls[r]) :
              i < j => calls[r][i].line_number < calls[r][j].line_number
        /\ \A i \in 1..Len(calls[r]) :
              /\ calls[r][i].line_number \in DOMAIN statements[r]
              /\ calls[r][i].statement = statements[r][calls[r][i].line_number]
        /\ Lowered(r) =>
              /\ {calls[r][i].line_number : i \in 1..Len(calls[r])}
                    = DOMAIN statements[r]
              /\ Len(calls[r]) = Cardinality(DOMAIN statements[r])
        /\ Len(locals[r]) = Len(PrintCalls(r))
        /\ \A i \in 1..Len(locals[r]) :
              locals[r][i] = LocalName(PrintCalls(r)[i].line_number)

\* two statements were lowered although the source gave the larger number
\* first
C2_Witness ==
    \E r \in Runs :
        /\ pc[r] = "done"
        /\ model[r] # None
        /\ Len(calls[r]) >= 2
        /\ int(model[r].lines[1].line_number) > int(model[r].lines[2].line_number)
        /\ HasStatement(model[r].lines[1])

\* C3: every Print with n >= 1 expressions handed to add_statement gave
\* exactly one printf call, with n + 1 arguments: the format of n %s joined
\* by one space and ended by one newline, then the n rendered texts in the
\* order of the expressions.
C3_PrintCall ==
    \A r \in Runs :
        LET assigns == Ops(main_block[r], "assignment")
        IN /\ Len(assigns) = Len(PrintCalls(r))
           /\ \A j \in 1..Len(assigns) :
                 LET es == PrintCalls(r)[j].statement.expressions
                     a == assigns[j].args
                 IN /\ assigns[j].fn = "printf"
                    /\ Len(a) = Len(es) + 1
                    /\ IsFormat(a[1], Len(es))
                    /\ \A i \in 1..Len(es) : a[i + 1] = get_str_for_print(es[i])

\* a printf call with two expressions, the second one labelled, is in the
\* routine
C3_Witness ==
    \E r \in Runs :
        \E j \in 1..Len(main_block[r]) :
            /\ main_block[r][j].op = "assignment"
            /\ Len(main_block[r][j].args) = 3
            /\ main_block[r][j].args[2] # main_block[r][j].args[3]

\* PRINT 1, "A" 1
ScenarioPrint ==
    [instruction_name |-> "PRINT",
     expressions |-> <<[label |-> None, number |-> <<"1">>],
                       [label |-> [value |-> <<"A">>], number |-> <<"1">>]>>]

\* C4: the text passed to printf for a labelled number is the label's text
\* followed at once by the number's digits, and for an unlabelled number
\* the digits alone; the line PRINT 1, "A" 1 prints "1 A1" and a newline.
C4_RenderedText ==
    \A r \in Runs :
        LET assigns == Ops(main_block[r], "assignment")
        IN \A j \in 1..Len(PrintCalls(r)) :
              LET st == PrintCalls(r)[j].statement
                  a == assigns[j].args
              IN /\ \A i \in 1..Len(st.expressions) :
                       LET e == st.expressions[i]
                       IN e.number # NoText =>
                             a[i + 1] = IF e.label = None
                                        THEN e.number
                                        ELSE e.label.value \o e.number
                 /\ st = ScenarioPrint =>
                       Printf(a[1], Tail(a)) = <<"1", " ", "A", "1", "\n">>

\* the executable of a program whose only surviving line is PRINT 1, "A" 1
\* is on disk and prints 1 A1
C4_Witness ==
    \E r \in Runs :
        /\ pc[r] = "done"
        /\ Len(calls[r]) = 1
        /\ calls[r][1].statement = ScenarioPrint
        /\ disk[args[r].outfile].kind = "executable"
        /\ Stdout(disk[args[r].outfile].code) = <<"1", " ", "A", "1", "\n">>

\* C5: the routine holds one printf call, and one local, for each lowered
\* Print with a non-empty expression list and none for any other statement;
\* a Comment adds one comment operation and nothing else; the routine ends
\* in return 0; a program of REM lines only writes nothing to stdout.
C5_CallIffNonEmptyPrint ==
    \A r \in Runs :
        LET nprint == Len(PrintCalls(r))
            ncomment == Len(CommentCalls(r))
            code == main_block[r]
        IN /\ Len(Ops(code, "assignment")) = nprint
           /\ Len(locals[r]) = nprint
           /\ Len(Ops(code, "comment")) = ncomment
           /\ Len(code) = nprint + ncomment + (IF Returned(r) THEN 1 ELSE 0)
           /\ Returned(r) => code[Len(code)] = [op |-> "return", value |-> 0]
           /\ Returned(r) /\ ncomment = Len(calls[r]) => Stdout(code) = <<>>
           /\ nprint = 0 => Stdout(code) = <<>>

\* a Print with an empty expression list and a Comment were lowered, and
\* the routine has no call
C5_Witness ==
    \E r \in Runs :
        /\ pc[r] = "done"
        /\ \E i \in 1..Len(calls[r]) :
              /\ calls[r][i].statement.instruction_name = "PRINT"
              /\ Len(calls[r][i].statement.expressions) = 0
        /\ Len(CommentCalls(r)) >= 1
        /\ Len(PrintCalls(r)) = 0
        /\ disk[args[r].outfile].kind = "executable"

\* C6: a run on an empty program text does not stop with a syntax error.
C6_EmptyProgramAccepted ==
    \A r \in Runs :
        pc[r] # "off" /\ program_text[r] = <<>> => err[r] # "FailedParse"

\* C7: after a failed link the run has failed and neither the executable
\* nor the object file of the run is on disk.
C7_FailedLinkLeavesNothing ==
    \A r \in Runs :
        err[r] = "CalledProcessError" =>
            /\ pc[r] = "failed"
            /\ disk[args[r].outfile].kind = "none"
            /\ disk[ObjectFile(r)].kind = "none"

\* C8: a run whose removal of the object file failed has still ended as a
\* success.
C8_RemoveFailureNotFatal ==
    \A r \in Runs :
        err[r] \in {"PermissionError", "FileNotFoundError"} => pc[r] = "done"

\* C9: of two runs on different source files, neither links the object
\* code the other wrote, and neither finds its object file removed.
C9_RunsShareNoObjectFile ==
    \A r \in Runs :
        /\ err[r] # "FileNotFoundError"
        /\ \A p \in Paths :
              disk[p].kind = "executable" => disk[p].code_by = disk[p].by

\* C10: within one run, no two locals of the routine have the same name.
C10_LocalNamesDistinct ==
    \A r \in Runs :
        \A i, j \in 1..Len(locals[r]) :
            i # j => locals[r][i] # locals[r][j]

\* two locals exist in a run whose source spells the number ten as 10 and
\* as 010
C10_Witness ==
    \E r \in Runs :
        /\ Len(locals[r]) >= 2
        /\ model[r] # None
        /\ \E i, j \in 1..Len(model[r].lines) :
              /\ model[r].lines[i].line_number = <<"1", "0">>
              /\ model[r].lines[j].line_number = <<"0", "1", "0">>

====
